---- MODULE Spec2Model ----
(***************************************************************************)
(* Session/token lifecycle of ApiService (src/src/services/api.ts, first   *)
(* class definition, lines 9-310) together with the callers that drive it: *)
(* App (src/unnamed/part_001) and MapView (src/unnamed/part_000,           *)
(* src/src/components/MapView.tsx).                                        *)
(*                                                                         *)
(* Execution is single-threaded and event-driven.  One action of the model *)
(* is one run of the event loop: the code from one external event (a call  *)
(* from the UI, a timer firing, a network response arriving) up to the     *)
(* next await on the network, including every await continuation that the  *)
(* microtask queue runs before the next event is taken.  A response's      *)
(* status line and its body (await fetch, await response.json()) arrive as *)
(* one event: nothing in the code reads or writes session state between    *)
(* the two.                                                                *)
(*                                                                         *)
(* Time is counted in minutes.  Tokens are opaque strings, modelled as the *)
(* numbers 1..MaxToken; 0 (Null) is null / absent.                         *)
(***************************************************************************)
EXTENDS Integers, FiniteSets, Sequences, TLC

\* ---------------------------------------------------------------- bounds
MaxToken == 2
MaxNow == 1
MaxTimerCalls == 1

\* ------------------------------------------------------ program constants
\* null: the initial value of the four static fields, and what
\* sessionStorage.getItem returns for a missing key
Null == 0
\* new Date(x).getTime() for an x that is no timestamp (NaN)
InvalidDate == -1
\* the string "undefined" that sessionStorage.setItem stores for a missing
\* tokens.access.expires
UndefinedStr == -2
\* bufferTime = 5 * 60 * 1000 ms, in minutes
BufferTime == 5
\* refreshBeforeExpiry = 15 * 60 * 1000 ms, in minutes
RefreshBeforeExpiry == 15

Tokens == 1..MaxToken
\* how far ahead of "now" the backend dates the access token it issues
ExpiryOffsets == {6, 16}
\* the values tokens.access.expires can take at time t: an ISO timestamp, or
\* a missing / unparseable field
ExpiresAt(t) == {t + d : d \in ExpiryOffsets} \cup {UndefinedStr}

DefaultRefreshError == "Token refresh failed"
ServerMessage == "Token not found"

VARIABLES
  accessToken,        \* ApiService.accessToken (memory)
  refreshToken,       \* ApiService.refreshToken (memory)
  accessTokenExpiry,  \* ApiService.accessTokenExpiry (memory, a Date)
  refreshTimeout,     \* ApiService.refreshTimeout (a timer handle)
  sessionStorage,     \* the durable store, three string keys
  timers,             \* the browser's table of pending timeouts
  now,                \* the clock read by new Date()
  gdl,                \* the getDeviceLocations call in flight, if any
  init,               \* the initializeAuth call in flight, if any
  login,              \* the login call in flight, if any
  timerCalls,         \* timer callbacks awaiting their refreshTokens
  screen,             \* what App renders: "loading", "login" or "map"
  ev                  \* what the last step did (history, for the properties)

vars == <<accessToken, refreshToken, accessTokenExpiry, refreshTimeout,
          sessionStorage, timers, now, gdl, init, login, timerCalls, screen,
          ev>>

\* ------------------------------------------------------- session state
\* The static fields, the durable store and the timer table as one value, so
\* that the synchronous methods compose inside one step.
Cur ==
  [accessToken |-> accessToken, refreshToken |-> refreshToken,
   accessTokenExpiry |-> accessTokenExpiry, refreshTimeout |-> refreshTimeout,
   sessionStorage |-> sessionStorage, timers |-> timers]

Install(s) ==
  /\ accessToken' = s.accessToken
  /\ refreshToken' = s.refreshToken
  /\ accessTokenExpiry' = s.accessTokenExpiry
  /\ refreshTimeout' = s.refreshTimeout
  /\ sessionStorage' = s.sessionStorage
  /\ timers' = s.timers

EmptyStorage ==
  [access_token |-> Null, refresh_token |-> Null, access_token_expiry |-> Null]

\* new Date(expires): a timestamp string parses to its time, anything else
\* gives an Invalid Date
NewDate(expires) == IF expires >= 1 THEN expires ELSE InvalidDate

\* setTokens() that keeps the refresh token in memory only
SetTokens_RefreshInMemoryOnly(s, a, r) ==
  [s EXCEPT !.accessToken = a, !.refreshToken = r,
            !.sessionStorage.access_token = a]

SetTokens(s, a, r) ==
  [s EXCEPT !.accessToken = a, !.refreshToken = r,
            !.sessionStorage.access_token = a,
            !.sessionStorage.refresh_token = r]

SetAccessToken(s, token) ==
  [s EXCEPT !.accessToken = token, !.sessionStorage.access_token = token]

\* getAccessToken(): the state after the lazy load; the value returned is
\* the accessToken field of that state
GetAccessToken(s) ==
  IF s.accessToken = Null
  THEN [s EXCEPT !.accessToken = s.sessionStorage.access_token]
  ELSE s

GetRefreshToken(s) ==
  IF s.refreshToken = Null
  THEN [s EXCEPT !.refreshToken = s.sessionStorage.refresh_token]
  ELSE s

\* setExpiry() that does not write access_token_expiry
SetExpiry_InMemoryOnly(s, expires) ==
  [s EXCEPT !.accessTokenExpiry = NewDate(expires)]

SetExpiry(s, expires) ==
  [s EXCEPT !.accessTokenExpiry = NewDate(expires),
            !.sessionStorage.access_token_expiry = expires]

GetExpiry(s) ==
  IF s.accessTokenExpiry = Null /\ s.sessionStorage.access_token_expiry # Null
  THEN [s EXCEPT !.accessTokenExpiry =
                    NewDate(s.sessionStorage.access_token_expiry)]
  ELSE s

\* isTokenExpired() on the state s, at time t.  NaN <= bufferTime is false.
IsTokenExpired(s, t) ==
  LET expiry == GetExpiry(s).accessTokenExpiry IN
  IF expiry = Null THEN TRUE
  ELSE IF expiry = InvalidDate THEN FALSE
  ELSE expiry - t <= BufferTime

ClearTimeout(tm, id) == {x \in tm : x.id # id}

\* stopAutoRefresh() that drops the handle without clearTimeout
StopAutoRefresh_DropsHandle(s) ==
  [s EXCEPT !.refreshTimeout = Null]

StopAutoRefresh(s) ==
  IF s.refreshTimeout # Null
  THEN [s EXCEPT !.timers = ClearTimeout(s.timers, s.refreshTimeout),
                 !.refreshTimeout = Null]
  ELSE s

\* clearTokens() without its stopAutoRefresh()
ClearTokens_NoStop(s) ==
  [s EXCEPT !.accessToken = Null, !.refreshToken = Null,
            !.accessTokenExpiry = Null,
            !.sessionStorage = EmptyStorage]

\* clearTokens() that leaves access_token_expiry in the store
ClearTokens_KeepsStoredExpiry(s) ==
  StopAutoRefresh(
    [s EXCEPT !.accessToken = Null, !.refreshToken = Null,
              !.accessTokenExpiry = Null,
              !.sessionStorage.access_token = Null,
              !.sessionStorage.refresh_token = Null])

ClearTokens(s) ==
  StopAutoRefresh(
    [s EXCEPT !.accessToken = Null, !.refreshToken = Null,
              !.accessTokenExpiry = Null,
              !.sessionStorage = EmptyStorage])

ClearAccessToken(s) ==
  [s EXCEPT !.accessToken = Null, !.sessionStorage.access_token = Null]

\* The handle window.setTimeout returns: an id no pending timer has.  Ids are
\* only ever compared for equality, and the one handle the program keeps is
\* refreshTimeout, so the smallest id that is neither pending nor held there
\* stands for the browser's next id.
NewTimerId(s) ==
  CHOOSE i \in 1..(Cardinality(s.timers) + 2) :
    /\ i # s.refreshTimeout
    /\ \A x \in s.timers : x.id # i
    /\ \A j \in 1..(i - 1) : j = s.refreshTimeout \/ \E x \in s.timers : x.id = j

\* delay = Math.max(timeUntilExpiry - refreshBeforeExpiry, 0); with an Invalid
\* Date the result is NaN, which setTimeout takes as 0
Delay(expiry, t) ==
  IF expiry = InvalidDate THEN 0
  ELSE IF expiry - t - RefreshBeforeExpiry > 0
       THEN expiry - t - RefreshBeforeExpiry
       ELSE 0

\* startAutoRefresh() that arms without cancelling the timer it holds
StartAutoRefresh_NoCancel(s, t) ==
  IF s.accessTokenExpiry = Null THEN s
  ELSE [s EXCEPT !.refreshTimeout = NewTimerId(s),
                 !.timers = s.timers \cup
                    {[id |-> NewTimerId(s),
                      fireAt |-> t + Delay(s.accessTokenExpiry, t)]}]

StartAutoRefresh(s, t) ==
  LET cleared == IF s.refreshTimeout # Null
                 THEN ClearTimeout(s.timers, s.refreshTimeout)
                 ELSE s.timers
      s1 == [s EXCEPT !.timers = cleared]
      id == NewTimerId(s1)
  IN IF s.accessTokenExpiry = Null THEN s1
     ELSE [s1 EXCEPT !.refreshTimeout = id,
                     !.timers = cleared \cup
                        {[id |-> id,
                          fireAt |-> t + Delay(s.accessTokenExpiry, t)]}]

\* ------------------------------------------------------------- network
\* What POST /auth/refresh-tokens and POST /auth/login can come back with:
\*   neterr       fetch rejects (no response)
\*   nonok        a non-2xx status; msg is the body's message ("" when the
\*                body has none or does not parse)
\*   unparseable  a 2xx status whose body is not JSON (response.json() rejects)
\*   ok           a 2xx status with a JSON body; a and r are access.token and
\*                refresh.token (Null when missing or empty), e is
\*                access.expires
\* The backend issues its tokens in pairs: pair n is access token n together
\* with refresh token n.
AuthResponses(t) ==
  {[kind |-> "neterr", msg |-> "", a |-> Null, r |-> Null, e |-> UndefinedStr],
   [kind |-> "unparseable", msg |-> "", a |-> Null, r |-> Null,
    e |-> UndefinedStr]}
  \cup {[kind |-> "nonok", msg |-> m, a |-> Null, r |-> Null,
         e |-> UndefinedStr] : m \in {"", ServerMessage}}
  \cup {[kind |-> "ok", msg |-> "", a |-> n, r |-> n, e |-> e] :
          n \in Tokens, e \in ExpiresAt(t)}
  \cup {[kind |-> "ok", msg |-> "", a |-> p[1], r |-> p[2],
         e |-> UndefinedStr] :
          p \in {<<Null, Null>>, <<Null, 1>>, <<1, Null>>}}

\* the statuses a data request can come back with
DataResponses == {"neterr", "200", "304", "401", "500"}

\* tokens?.access?.token && tokens?.refresh?.token
HasTokens(resp) == resp.kind = "ok" /\ resp.a # Null /\ resp.r # Null

\* refreshTokens() that installs the tokens of a good response and not its
\* expiry
RefreshTokensDone_NoSetExpiry(s, resp, t) ==
  IF resp.kind = "nonok" THEN ClearTokens(s)
  ELSE IF resp.kind = "ok"
       THEN IF HasTokens(resp)
            THEN StartAutoRefresh(SetTokens(s, resp.a, resp.r), t)
            ELSE ClearTokens(s)
       ELSE s

\* refreshTokens() from the arrival of its response on: the session state it
\* leaves
RefreshTokensDone(s, resp, t) ==
  IF resp.kind = "nonok" THEN ClearTokens(s)
  ELSE IF resp.kind = "ok"
       THEN IF HasTokens(resp)
            THEN StartAutoRefresh(
                   SetExpiry(SetTokens(s, resp.a, resp.r), resp.e), t)
            ELSE ClearTokens(s)
       ELSE s

\* how that refreshTokens() call ends, as recorded in ev.renew
RefreshOutcome(resp) ==
  IF resp.kind = "ok"
  THEN IF HasTokens(resp) THEN "ok" ELSE "malformed"
  ELSE resp.kind

\* the message of the error refreshTokens() throws ("" when it returns)
RefreshError(resp) ==
  IF resp.kind = "nonok"
  THEN IF resp.msg # "" THEN resp.msg ELSE DefaultRefreshError
  ELSE IF resp.kind = "ok"
       THEN IF HasTokens(resp) THEN ""
            ELSE "Invalid token response structure"
       ELSE IF resp.kind = "neterr" THEN "Failed to fetch"
            ELSE "Unexpected token in JSON"

\* ------------------------------------------------------------- history
\* ev describes the step just taken:
\*   renew, caller, err, msg   a refreshTokens() call that ended in this step:
\*                             how, who called it, the error it threw, and the
\*                             message the server's body carried
\*   a, r, e                   what a successful renewal or login installed
\*   req, bearer, ensured      a protected request issued in this step, the
\*                             token it carries, and whether ensureValidToken
\*                             ran before it in the same call
\*   op, result                a call that returned to the application in this
\*                             step and what it returned or threw
\*   stage, status             for getDeviceLocations: which of its requests
\*                             was answered in this step, and with what
\*   nData, nReactive          for getDeviceLocations: data requests issued and
\*                             renewals started on a 401, so far in this call
\*   ensure, nEnsure           an ensureValidToken() call that ran in this
\*                             step: "renewing" when it is left awaiting
\*                             refreshTokens(), "returned" when it returned,
\*                             else the message of the error it threw; and the
\*                             refreshTokens() calls it has made
\*   ret                       the token a getter called in this step returned
NoEv ==
  [renew |-> "none", caller |-> "none", err |-> "", msg |-> "",
   a |-> Null, r |-> Null, e |-> Null,
   req |-> "none", bearer |-> Null, ensured |-> FALSE,
   op |-> "none", result |-> "none", stage |-> "none", status |-> "none",
   nData |-> 0, nReactive |-> 0, ensure |-> "none", nEnsure |-> 0,
   ret |-> Null]

EvRenew(e0, caller, resp) ==
  [e0 EXCEPT !.renew = RefreshOutcome(resp), !.caller = caller,
             !.err = RefreshError(resp), !.msg = resp.msg,
             !.a = IF HasTokens(resp) THEN resp.a ELSE Null,
             !.r = IF HasTokens(resp) THEN resp.r ELSE Null,
             !.e = IF HasTokens(resp) THEN resp.e ELSE Null]

\* refreshTokens() that throws "No refresh token available" before any request
EvNoRefresh(e0, caller) ==
  [e0 EXCEPT !.renew = "norefresh", !.caller = caller,
             !.err = "No refresh token available"]

\* ----------------------------------------------------- processes at rest
GdlIdle ==
  [pc |-> "idle", rt |-> Null, nData |-> 0, nReactive |-> 0,
   ensured |-> FALSE, nEnsure |-> 0]

CallIdle == [pc |-> "idle", rt |-> Null]

NoTimerCalls == [k \in Tokens |-> 0]

RECURSIVE SumOver(_, _)
SumOver(f, S) ==
  IF S = {} THEN 0
  ELSE LET k == CHOOSE x \in S : TRUE IN f[k] + SumOver(f, S \ {k})

\* how many timer callbacks are awaiting their refreshTokens
TimerCallCount == SumOver(timerCalls, Tokens)

Init ==
  /\ accessToken = Null
  /\ refreshToken = Null
  /\ accessTokenExpiry = Null
  /\ refreshTimeout = Null
  /\ sessionStorage = EmptyStorage
  /\ timers = {}
  /\ now = 0
  /\ gdl = GdlIdle
  /\ init = CallIdle
  /\ login = CallIdle
  /\ timerCalls = NoTimerCalls
  /\ screen = "loading"
  /\ ev = NoEv

\* --------------------------------------------------- getDeviceLocations
\* MapView's load handler around getDeviceLocations(): an error whose message
\* is "Unauthorized" calls onLogout, which is App.handleLogout
OnLoadError(s, message) ==
  IF message = "Unauthorized" THEN ClearTokens(s) ELSE s

\* what App renders after the load handler: handleLogout also sets
\* isAuthenticated to false
ScreenAfterLoad(message) ==
  IF message = "Unauthorized" /\ screen # "loading" THEN "login" ELSE screen

\* getDeviceLocations() ends: the session as the load handler leaves it, and
\* the record of the call
GdlReturn(s, e0, result) ==
  /\ Install(OnLoadError(s, result))
  /\ screen' = ScreenAfterLoad(result)
  /\ gdl' = GdlIdle
  /\ ev' = [e0 EXCEPT !.op = "getDeviceLocations", !.result = result,
                      !.nData = gdl.nData, !.nReactive = gdl.nReactive]

\* fetch(device-locations) with the bearer token read by getAccessToken()
GdlSendData(s, e0, stage) ==
  LET s1 == GetAccessToken(s) IN
  /\ Install(s1)
  /\ gdl' = [gdl EXCEPT !.pc = stage, !.rt = Null, !.ensured = TRUE,
                        !.nData = @ + 1, !.nEnsure = 0]
  /\ screen' = screen
  /\ ev' = [e0 EXCEPT !.req = "device-locations", !.bearer = s1.accessToken,
                      !.ensured = TRUE, !.nData = gdl.nData + 1,
                      !.nReactive = gdl.nReactive]

\* ensureValidToken() that looks for the access token only
EnsureValidToken_ChecksAccessOnly(s, t) ==
  IF s.accessToken = Null
  THEN "No tokens available"
  ELSE IF IsTokenExpired(s, t) THEN "renewing" ELSE "returned"

\* ensureValidToken() on the state s its two getters left, at time t, up to
\* its await: the error it throws, "renewing" when it calls refreshTokens(),
\* "returned" when it returns at once
EnsureValidToken(s, t) ==
  IF s.accessToken = Null \/ s.refreshToken = Null
  THEN "No tokens available"
  ELSE IF IsTokenExpired(s, t) THEN "renewing" ELSE "returned"

\* the call begins: ensureValidToken(), then the first data request
GdlStart ==
  LET s0 == GetRefreshToken(GetAccessToken(Cur))
      s1 == GetExpiry(s0)
      ensure == EnsureValidToken(s0, now)
      e0 == [NoEv EXCEPT !.ensure = ensure]
  IN
  /\ screen = "map"
  /\ gdl.pc = "idle"
  /\ UNCHANGED <<now, init, login, timerCalls>>
  /\ IF ensure = "No tokens available"
     THEN GdlReturn(ClearTokens(s0), e0, "Unauthorized")
     ELSE IF ensure = "renewing"
          THEN /\ Install(s1)
               /\ gdl' = [gdl EXCEPT !.pc = "ensure", !.rt = s1.refreshToken,
                                     !.nEnsure = @ + 1]
               /\ screen' = screen
               /\ ev' = [e0 EXCEPT !.nEnsure = gdl.nEnsure + 1]
          ELSE IF s1.accessToken = Null
               THEN GdlReturn(s1, e0, "No access token available")
               ELSE GdlSendData(s1, e0, "data1")

\* getDeviceLocations() that lets the error of ensureValidToken() through
GdlEnsureResponse_Rethrows(resp) ==
  LET s1 == RefreshTokensDone(Cur, resp, now)
      e1 == [EvRenew(NoEv, "ensure", resp) EXCEPT
               !.ensure = IF HasTokens(resp) THEN "returned"
                          ELSE RefreshError(resp),
               !.nEnsure = gdl.nEnsure]
  IN
  /\ gdl.pc = "ensure"
  /\ UNCHANGED <<now, init, login, timerCalls>>
  /\ IF HasTokens(resp)
     THEN IF GetAccessToken(s1).accessToken = Null
          THEN GdlReturn(s1, e1, "No access token available")
          ELSE GdlSendData(s1, e1, "data1")
     ELSE GdlReturn(s1, e1, RefreshError(resp))

\* the renewal started by ensureValidToken() is answered
GdlEnsureResponse(resp) ==
  LET s1 == RefreshTokensDone(Cur, resp, now)
      e1 == [EvRenew(NoEv, "ensure", resp) EXCEPT
               !.ensure = IF HasTokens(resp) THEN "returned"
                          ELSE RefreshError(resp),
               !.nEnsure = gdl.nEnsure]
  IN
  /\ gdl.pc = "ensure"
  /\ UNCHANGED <<now, init, login, timerCalls>>
  /\ IF HasTokens(resp)
     THEN IF GetAccessToken(s1).accessToken = Null
          THEN GdlReturn(s1, e1, "No access token available")
          ELSE GdlSendData(s1, e1, "data1")
     ELSE GdlReturn(ClearTokens(s1), e1, "Unauthorized")

\* how getDeviceLocations() ends on a response that is not a 401
DataResult(status) ==
  IF status = "304" THEN "[]"
  ELSE IF status = "200" THEN "data"
  ELSE "Failed to fetch device locations"

\* a 401 handler that starts no renewal while a timer callback awaits one
GdlData1Response_YieldsToTimer(status) ==
  LET s0 == GetRefreshToken(Cur)
      e1 == [NoEv EXCEPT !.stage = "data1", !.status = status]
  IN
  /\ gdl.pc = "data1"
  /\ UNCHANGED <<now, init, login, timerCalls>>
  /\ IF status = "neterr" THEN GdlReturn(Cur, e1, "Failed to fetch")
     ELSE IF status = "401"
          THEN IF s0.refreshToken = Null \/ TimerCallCount > 0
               THEN /\ Install(OnLoadError(ClearTokens(s0), "Unauthorized"))
                    /\ screen' = ScreenAfterLoad("Unauthorized")
                    /\ gdl' = GdlIdle
                    /\ ev' = [EvNoRefresh(e1, "reactive") EXCEPT
                                !.op = "getDeviceLocations",
                                !.result = "Unauthorized",
                                !.nData = gdl.nData,
                                !.nReactive = gdl.nReactive + 1]
               ELSE /\ Install(s0)
                    /\ screen' = screen
                    /\ gdl' = [gdl EXCEPT !.pc = "reactive",
                                          !.rt = s0.refreshToken,
                                          !.nReactive = @ + 1]
                    /\ ev' = [e1 EXCEPT !.nData = gdl.nData,
                                        !.nReactive = gdl.nReactive + 1]
          ELSE GdlReturn(Cur, e1, DataResult(status))

\* the first data request is answered
GdlData1Response(status) ==
  LET s0 == GetRefreshToken(Cur)
      e1 == [NoEv EXCEPT !.stage = "data1", !.status = status]
  IN
  /\ gdl.pc = "data1"
  /\ UNCHANGED <<now, init, login, timerCalls>>
  /\ IF status = "neterr" THEN GdlReturn(Cur, e1, "Failed to fetch")
     ELSE IF status = "401"
          THEN IF s0.refreshToken = Null
               THEN /\ Install(OnLoadError(ClearTokens(s0), "Unauthorized"))
                    /\ screen' = ScreenAfterLoad("Unauthorized")
                    /\ gdl' = GdlIdle
                    /\ ev' = [EvNoRefresh(e1, "reactive") EXCEPT
                                !.op = "getDeviceLocations",
                                !.result = "Unauthorized",
                                !.nData = gdl.nData,
                                !.nReactive = gdl.nReactive + 1]
               ELSE /\ Install(s0)
                    /\ screen' = screen
                    /\ gdl' = [gdl EXCEPT !.pc = "reactive",
                                          !.rt = s0.refreshToken,
                                          !.nReactive = @ + 1]
                    /\ ev' = [e1 EXCEPT !.nData = gdl.nData,
                                        !.nReactive = gdl.nReactive + 1]
          ELSE GdlReturn(Cur, e1, DataResult(status))

\* the renewal started on the 401 is answered
GdlReactiveResponse(resp) ==
  LET s1 == RefreshTokensDone(Cur, resp, now)
      e1 == EvRenew(NoEv, "reactive", resp)
  IN
  /\ gdl.pc = "reactive"
  /\ UNCHANGED <<now, init, login, timerCalls>>
  /\ IF HasTokens(resp)
     THEN GdlSendData(s1, e1, "data2")
     ELSE GdlReturn(ClearTokens(s1), e1, "Unauthorized")

\* a reissued request whose 401 starts another renewal
GdlData2Response_RetriesAgain(status) ==
  LET e1 == [NoEv EXCEPT !.stage = "data2", !.status = status] IN
  /\ gdl.pc = "data2"
  /\ UNCHANGED <<now, init, login, timerCalls>>
  /\ IF status = "neterr"
     THEN GdlReturn(ClearTokens(Cur), e1, "Unauthorized")
     ELSE IF status = "401" /\ refreshToken # Null
          THEN /\ Install(Cur)
               /\ screen' = screen
               /\ gdl' = [gdl EXCEPT !.pc = "reactive", !.rt = refreshToken,
                                     !.nReactive = @ + 1]
               /\ ev' = [e1 EXCEPT !.nData = gdl.nData,
                                   !.nReactive = gdl.nReactive + 1]
          ELSE GdlReturn(Cur, e1, DataResult(status))

\* the reissued data request is answered
GdlData2Response(status) ==
  LET e1 == [NoEv EXCEPT !.stage = "data2", !.status = status] IN
  /\ gdl.pc = "data2"
  /\ UNCHANGED <<now, init, login, timerCalls>>
  /\ IF status = "neterr"
     THEN GdlReturn(ClearTokens(Cur), e1, "Unauthorized")
     ELSE GdlReturn(Cur, e1, DataResult(status))

\* ------------------------------------------------------ proactive timer
\* a timer callback whose refreshTokens() drops the access token as it sends
\* its request
TimerFire_DropsAccessToken(tm) ==
  LET s0 == GetRefreshToken([Cur EXCEPT !.timers = timers \ {tm}]) IN
  /\ tm \in timers
  /\ now >= tm.fireAt
  /\ UNCHANGED <<now, gdl, init, login, screen>>
  /\ IF s0.refreshToken = Null
     THEN /\ Install(s0)
          /\ timerCalls' = timerCalls
          /\ ev' = EvNoRefresh(NoEv, "timer")
     ELSE /\ Install(ClearAccessToken(s0))
          /\ TimerCallCount < MaxTimerCalls
          /\ timerCalls' = [timerCalls EXCEPT ![s0.refreshToken] = @ + 1]
          /\ ev' = NoEv

\* A pending timeout fires (no earlier than its delay): the callback calls
\* refreshTokens(), which sends its request, or throws at once when no refresh
\* token is held; the callback catches and logs what it throws.
TimerFire(tm) ==
  LET s0 == GetRefreshToken([Cur EXCEPT !.timers = timers \ {tm}]) IN
  /\ tm \in timers
  /\ now >= tm.fireAt
  /\ UNCHANGED <<now, gdl, init, login, screen>>
  /\ Install(s0)
  /\ IF s0.refreshToken = Null
     THEN /\ timerCalls' = timerCalls
          /\ ev' = EvNoRefresh(NoEv, "timer")
     ELSE /\ TimerCallCount < MaxTimerCalls
          /\ timerCalls' = [timerCalls EXCEPT ![s0.refreshToken] = @ + 1]
          /\ ev' = NoEv

\* a timer callback that calls startAutoRefresh() whether or not its
\* refreshTokens() threw
TimerResponse_RearmsAlways(rt, resp) ==
  LET s1 == RefreshTokensDone(Cur, resp, now) IN
  /\ timerCalls[rt] > 0
  /\ UNCHANGED <<now, gdl, init, login, screen>>
  /\ timerCalls' = [timerCalls EXCEPT ![rt] = @ - 1]
  /\ Install(StartAutoRefresh(s1, now))
  /\ ev' = EvRenew(NoEv, "timer", resp)

\* the renewal a timer callback awaits is answered; on success the callback
\* calls startAutoRefresh() once more
TimerResponse(rt, resp) ==
  LET s1 == RefreshTokensDone(Cur, resp, now) IN
  /\ timerCalls[rt] > 0
  /\ UNCHANGED <<now, gdl, init, login, screen>>
  /\ timerCalls' = [timerCalls EXCEPT ![rt] = @ - 1]
  /\ Install(IF HasTokens(resp) THEN StartAutoRefresh(s1, now) ELSE s1)
  /\ ev' = EvRenew(NoEv, "timer", resp)

\* ------------------------------------------------------- initializeAuth
\* App.initAuth after initializeAuth() returned isValid: a false result makes
\* it evaluate getAccessToken() || getRefreshToken()
InitAuthReturn(s, e0, isValid) ==
  /\ Install(IF isValid THEN s
             ELSE IF GetAccessToken(s).accessToken # Null
                  THEN GetAccessToken(s)
                  ELSE GetRefreshToken(GetAccessToken(s)))
  /\ init' = CallIdle
  /\ screen' = IF isValid THEN "map" ELSE "login"
  /\ ev' = [e0 EXCEPT !.op = "initializeAuth",
                      !.result = IF isValid THEN "true" ELSE "false"]

\* initializeAuth() that returns true on a fresh session without
\* startAutoRefresh()
InitializeAuth_NoArm ==
  LET s0 == GetExpiry(GetRefreshToken(GetAccessToken(Cur))) IN
  /\ screen = "loading"
  /\ init.pc = "idle"
  /\ UNCHANGED <<now, gdl, login, timerCalls>>
  /\ IF s0.accessToken = Null \/ s0.refreshToken = Null
     THEN InitAuthReturn(s0, NoEv, FALSE)
     ELSE IF s0.accessTokenExpiry = Null
          THEN InitAuthReturn(ClearTokens(s0), NoEv, FALSE)
          ELSE IF IsTokenExpired(s0, now)
               THEN /\ Install(s0)
                    /\ init' = [pc |-> "renew", rt |-> s0.refreshToken]
                    /\ screen' = screen
                    /\ ev' = NoEv
               ELSE InitAuthReturn(s0, NoEv, TRUE)

\* initializeAuth() that returns false on a missing expiry without
\* clearTokens()
InitializeAuth_KeepsCorrupt ==
  LET s0 == GetExpiry(GetRefreshToken(GetAccessToken(Cur))) IN
  /\ screen = "loading"
  /\ init.pc = "idle"
  /\ UNCHANGED <<now, gdl, login, timerCalls>>
  /\ IF s0.accessToken = Null \/ s0.refreshToken = Null
        \/ s0.accessTokenExpiry = Null
     THEN InitAuthReturn(s0, NoEv, FALSE)
     ELSE IF IsTokenExpired(s0, now)
          THEN /\ Install(s0)
               /\ init' = [pc |-> "renew", rt |-> s0.refreshToken]
               /\ screen' = screen
               /\ ev' = NoEv
          ELSE InitAuthReturn(StartAutoRefresh(s0, now), NoEv, TRUE)

InitializeAuth ==
  LET s0 == GetExpiry(GetRefreshToken(GetAccessToken(Cur))) IN
  /\ screen = "loading"
  /\ init.pc = "idle"
  /\ UNCHANGED <<now, gdl, login, timerCalls>>
  /\ IF s0.accessToken = Null \/ s0.refreshToken = Null
     THEN InitAuthReturn(s0, NoEv, FALSE)
     ELSE IF s0.accessTokenExpiry = Null
          THEN InitAuthReturn(ClearTokens(s0), NoEv, FALSE)
          ELSE IF IsTokenExpired(s0, now)
               THEN /\ Install(s0)
                    /\ init' = [pc |-> "renew", rt |-> s0.refreshToken]
                    /\ screen' = screen
                    /\ ev' = NoEv
               ELSE InitAuthReturn(StartAutoRefresh(s0, now), NoEv, TRUE)

\* initializeAuth() whose catch returns false without clearTokens()
InitResponse_NoClear(resp) ==
  LET s1 == RefreshTokensDone(Cur, resp, now)
      e1 == EvRenew(NoEv, "init", resp)
  IN
  /\ init.pc = "renew"
  /\ UNCHANGED <<now, gdl, login, timerCalls>>
  /\ InitAuthReturn(s1, e1, HasTokens(resp))

\* the renewal initializeAuth() awaits is answered
InitResponse(resp) ==
  LET s1 == RefreshTokensDone(Cur, resp, now)
      e1 == EvRenew(NoEv, "init", resp)
  IN
  /\ init.pc = "renew"
  /\ UNCHANGED <<now, gdl, login, timerCalls>>
  /\ IF HasTokens(resp)
     THEN InitAuthReturn(s1, e1, TRUE)
     ELSE InitAuthReturn(ClearTokens(s1), e1, FALSE)

\* ---------------------------------------------------------------- login
LoginStart ==
  /\ screen = "login"
  /\ login.pc = "idle"
  /\ login' = [pc |-> "fetch", rt |-> Null]
  /\ ev' = NoEv
  /\ UNCHANGED <<accessToken, refreshToken, accessTokenExpiry, refreshTimeout,
                 sessionStorage, timers, now, gdl, init, timerCalls, screen>>

\* login() from the arrival of its response on
LoginDone(s, resp, t) ==
  IF HasTokens(resp)
  THEN StartAutoRefresh(SetExpiry(SetTokens(s, resp.a, resp.r), resp.e), t)
  ELSE s

LoginResponse(resp) ==
  /\ login.pc = "fetch"
  /\ UNCHANGED <<now, gdl, init, timerCalls>>
  /\ Install(LoginDone(Cur, resp, now))
  /\ login' = CallIdle
  /\ screen' = IF HasTokens(resp) THEN "map" ELSE screen
  /\ ev' = [NoEv EXCEPT
              !.op = "login",
              !.result = IF HasTokens(resp) THEN "ok"
                         ELSE IF resp.kind = "nonok" THEN "Login failed"
                         ELSE IF resp.kind = "ok"
                              THEN "Invalid login response structure"
                              ELSE RefreshError(resp),
              !.a = IF HasTokens(resp) THEN resp.a ELSE Null,
              !.r = IF HasTokens(resp) THEN resp.r ELSE Null,
              !.e = IF HasTokens(resp) THEN resp.e ELSE Null]

\* ------------------------------------------------- the rest of the app
\* App.handleLogout: ApiService.clearTokens()
Logout ==
  /\ screen = "map"
  /\ screen' = "login"
  /\ Install(ClearTokens(Cur))
  /\ ev' = [NoEv EXCEPT !.op = "clearTokens"]
  /\ UNCHANGED <<now, gdl, init, login, timerCalls>>

\* MapView's transformRequest for a vector tile: the bearer token is what
\* getAccessToken() returns, and the header is left out when that is null
TransformRequest ==
  LET s1 == GetAccessToken(Cur) IN
  /\ screen = "map"
  /\ Install(s1)
  /\ ev' = [NoEv EXCEPT !.req = "tile", !.bearer = s1.accessToken,
                        !.ensured = FALSE]
  /\ UNCHANGED <<now, gdl, init, login, timerCalls, screen>>

\* The page is reloaded: the static fields start over at null, pending timers
\* and calls in flight are gone, sessionStorage survives.
Reload ==
  /\ accessToken' = Null
  /\ refreshToken' = Null
  /\ accessTokenExpiry' = Null
  /\ refreshTimeout' = Null
  /\ timers' = {}
  /\ gdl' = GdlIdle
  /\ init' = CallIdle
  /\ login' = CallIdle
  /\ timerCalls' = NoTimerCalls
  /\ screen' = "loading"
  /\ ev' = [NoEv EXCEPT !.op = "reload"]
  /\ UNCHANGED <<sessionStorage, now>>

\* a minute passes
Tick ==
  /\ now < MaxNow
  /\ now' = now + 1
  /\ ev' = NoEv
  /\ UNCHANGED <<accessToken, refreshToken, accessTokenExpiry, refreshTimeout,
                 sessionStorage, timers, gdl, init, login, timerCalls,
                 screen>>

\* ------------------------------------- the class's other public methods
\* ApiService is exported (and put on window in development): its setters can
\* be called on their own.
CallSetTokens(a, r) ==
  /\ Install(SetTokens(Cur, a, r))
  /\ ev' = [NoEv EXCEPT !.op = "setTokens", !.a = a, !.r = r]
  /\ UNCHANGED <<now, gdl, init, login, timerCalls, screen>>

CallSetAccessToken(token) ==
  /\ Install(SetAccessToken(Cur, token))
  /\ ev' = [NoEv EXCEPT !.op = "setAccessToken", !.a = token]
  /\ UNCHANGED <<now, gdl, init, login, timerCalls, screen>>

CallClearAccessToken ==
  /\ Install(ClearAccessToken(Cur))
  /\ ev' = [NoEv EXCEPT !.op = "clearAccessToken"]
  /\ UNCHANGED <<now, gdl, init, login, timerCalls, screen>>

CallSetExpiry(expires) ==
  /\ Install(SetExpiry(Cur, expires))
  /\ ev' = [NoEv EXCEPT !.op = "setExpiry", !.e = expires]
  /\ UNCHANGED <<now, gdl, init, login, timerCalls, screen>>

CallStartAutoRefresh ==
  /\ Install(StartAutoRefresh(Cur, now))
  /\ ev' = [NoEv EXCEPT !.op = "startAutoRefresh"]
  /\ UNCHANGED <<now, gdl, init, login, timerCalls, screen>>

CallStopAutoRefresh ==
  /\ Install(StopAutoRefresh(Cur))
  /\ ev' = [NoEv EXCEPT !.op = "stopAutoRefresh"]
  /\ UNCHANGED <<now, gdl, init, login, timerCalls, screen>>

CallClearTokens ==
  /\ Install(ClearTokens(Cur))
  /\ ev' = [NoEv EXCEPT !.op = "clearTokens"]
  /\ UNCHANGED <<now, gdl, init, login, timerCalls, screen>>

CallGetAccessToken ==
  /\ Install(GetAccessToken(Cur))
  /\ ev' = [NoEv EXCEPT !.op = "getAccessToken",
                        !.ret = GetAccessToken(Cur).accessToken]
  /\ UNCHANGED <<now, gdl, init, login, timerCalls, screen>>

CallGetRefreshToken ==
  /\ Install(GetRefreshToken(Cur))
  /\ ev' = [NoEv EXCEPT !.op = "getRefreshToken",
                        !.ret = GetRefreshToken(Cur).refreshToken]
  /\ UNCHANGED <<now, gdl, init, login, timerCalls, screen>>

\* isTokenExpired() reads the expiry through getExpiry()
CallIsTokenExpired ==
  /\ Install(GetExpiry(Cur))
  /\ ev' = [NoEv EXCEPT !.op = "isTokenExpired",
                        !.result = IF IsTokenExpired(Cur, now) THEN "true"
                                   ELSE "false"]
  /\ UNCHANGED <<now, gdl, init, login, timerCalls, screen>>

\* debugAuthStatus(): reads through all three getters
DebugAuthStatus ==
  /\ Install(GetExpiry(GetRefreshToken(GetAccessToken(Cur))))
  /\ ev' = [NoEv EXCEPT !.op = "debugAuthStatus"]
  /\ UNCHANGED <<now, gdl, init, login, timerCalls, screen>>

\* ------------------------------------------------------- specification
\* the application: what App, MapView and the timer make ApiService do
AppNext ==
  \/ GdlStart
  \/ \E resp \in AuthResponses(now) : GdlEnsureResponse(resp)
  \/ \E status \in DataResponses : GdlData1Response(status)
  \/ \E resp \in AuthResponses(now) : GdlReactiveResponse(resp)
  \/ \E status \in DataResponses : GdlData2Response(status)
  \/ \E tm \in timers : TimerFire(tm)
  \/ \E rt \in Tokens, resp \in AuthResponses(now) : TimerResponse(rt, resp)
  \/ InitializeAuth
  \/ \E resp \in AuthResponses(now) : InitResponse(resp)
  \/ LoginStart
  \/ \E resp \in AuthResponses(now) : LoginResponse(resp)
  \/ Logout
  \/ TransformRequest
  \/ Reload
  \/ Tick

\* direct calls of the public setters and of debugAuthStatus
ApiNext ==
  \/ \E a \in Tokens, r \in Tokens : CallSetTokens(a, r)
  \/ \E token \in Tokens : CallSetAccessToken(token)
  \/ CallClearAccessToken
  \/ \E expires \in ExpiresAt(now) : CallSetExpiry(expires)
  \/ CallStartAutoRefresh
  \/ CallStopAutoRefresh
  \/ DebugAuthStatus

Next == AppNext

Spec == Init /\ [][Next]_vars

\* the application together with direct calls of the class's public methods
ApiSpec == Init /\ [][AppNext \/ ApiNext]_vars

\* ------------------------------------------------ the class on its own
\* ApiService driven through its public methods in a page that has just
\* loaded, or has been running, over a store that holds any three strings: a
\* token or nothing under each token key, and under access_token_expiry
\* nothing, a string that is no timestamp, or a timestamp on either side of
\* the 5 and the 15 minute marks.
UnitExpiries ==
  {Null, UndefinedStr, 1}
  \cup {BufferTime + d : d \in {-1, 0, 1}}
  \cup {RefreshBeforeExpiry + d : d \in {-1, 0, 1}}

UnitInit ==
  /\ \E a \in {Null} \cup Tokens, r \in {Null} \cup Tokens,
        e \in UnitExpiries, loaded \in BOOLEAN :
       /\ sessionStorage = [access_token |-> a, refresh_token |-> r,
                            access_token_expiry |-> e]
       /\ accessToken = IF loaded THEN a ELSE Null
       /\ refreshToken = IF loaded THEN r ELSE Null
       /\ accessTokenExpiry = IF loaded /\ e # Null THEN NewDate(e) ELSE Null
  /\ refreshTimeout = Null
  /\ timers = {}
  /\ now \in 0..MaxNow
  /\ gdl = GdlIdle
  /\ init = CallIdle
  /\ login = CallIdle
  /\ timerCalls = NoTimerCalls
  /\ screen \in {"loading", "map"}
  /\ ev = NoEv

UnitNext ==
  \/ \E a \in Tokens, r \in Tokens : CallSetTokens(a, r)
  \/ CallGetAccessToken
  \/ CallGetRefreshToken
  \/ CallIsTokenExpired
  \/ CallClearTokens
  \/ CallStartAutoRefresh
  \/ CallStopAutoRefresh
  \/ \E tm \in timers : TimerFire(tm)
  \/ \E rt \in Tokens, resp \in AuthResponses(now) : TimerResponse(rt, resp)
  \/ Reload
  \/ Tick

UnitSpec == UnitInit /\ [][UnitNext]_vars

\* getDeviceLocations(), and with it ensureValidToken(), called over any such
\* store
LoadNext ==
  \/ GdlStart
  \/ \E resp \in AuthResponses(now) : GdlEnsureResponse(resp)
  \/ \E status \in DataResponses : GdlData1Response(status)
  \/ \E resp \in AuthResponses(now) : GdlReactiveResponse(resp)
  \/ \E status \in DataResponses : GdlData2Response(status)
  \/ Tick

LoadSpec == UnitInit /\ [][LoadNext]_vars

\* getDeviceLocations() and the proactive timer over any such store: the
\* only writers of the session are refreshTokens() and the clearTokens() of
\* the error paths
RenewNext ==
  \/ LoadNext
  \/ \E tm \in timers : TimerFire(tm)
  \/ \E rt \in Tokens, resp \in AuthResponses(now) : TimerResponse(rt, resp)

RenewSpec == UnitInit /\ [][RenewNext]_vars

\* App starting over any such store
StartNext ==
  \/ InitializeAuth
  \/ \E resp \in AuthResponses(now) : InitResponse(resp)
  \/ Tick

StartSpec == UnitInit /\ [][StartNext]_vars

\* ================================================================ claims
\* what getAccessToken(), getRefreshToken() and getExpiry() would return now
AccessTokenView == GetAccessToken(Cur).accessToken
RefreshTokenView == GetRefreshToken(Cur).refreshToken
ExpiryView == GetExpiry(Cur).accessTokenExpiry

\* nothing of the session is left, in memory or in the store
SessionCleared ==
  /\ accessToken = Null
  /\ refreshToken = Null
  /\ accessTokenExpiry = Null
  /\ sessionStorage = EmptyStorage

\* C1: after a refreshTokens() that failed on a non-2xx answer or on a 2xx
\* body without access.token or refresh.token, the three session fields are
\* absent in memory and in the store, both getters return null, no timer is
\* pending, and the error thrown carries the server's message when the body
\* had one.
C1_FailedRenewalClearsSession ==
  ev.renew \in {"nonok", "malformed"} =>
    /\ SessionCleared
    /\ AccessTokenView = Null
    /\ RefreshTokenView = Null
    /\ timers = {}
    /\ refreshTimeout = Null
    /\ ev.err # ""
    /\ (ev.msg # "" => ev.err = ev.msg)

C1_Witness ==
  /\ ev.renew = "nonok"
  /\ ev.msg = ServerMessage
  /\ ev.caller = "timer"

C1_WitnessMalformed == ev.renew = "malformed" /\ ev.caller = "reactive"

\* C2: one getDeviceLocations() call whose first answer is a 401 starts one
\* renewal; when that renewal succeeds the request is reissued once, in the
\* same step, with the access token the renewal installed; whatever the
\* answers, the call never issues a third data request nor starts a second
\* renewal on a 401, and the answer to the reissued request ends it.
C2_OneReactiveRetry ==
  /\ gdl.nData <= 2 /\ gdl.nReactive <= 1
  /\ ev.nData <= 2 /\ ev.nReactive <= 1
  /\ (gdl.pc = "reactive" => gdl.nData = 1 /\ gdl.nReactive = 1)
  /\ (gdl.pc = "data2" => gdl.nData = 2 /\ gdl.nReactive = 1)
  /\ (ev.stage = "data1" /\ ev.status = "401" => ev.nReactive = 1)
  /\ (ev.caller = "reactive" /\ ev.renew = "ok" =>
        /\ ev.req = "device-locations"
        /\ ev.bearer = ev.a
        /\ ev.nData = 2
        /\ gdl.pc = "data2")
  /\ (ev.stage = "data2" =>
        /\ ev.op = "getDeviceLocations"
        /\ ev.req = "none"
        /\ ev.renew = "none"
        /\ gdl.pc = "idle")

C2_Witness ==
  /\ ev.stage = "data2"
  /\ ev.status = "401"
  /\ ev.nData = 2
  /\ ev.nReactive = 1

\* C3: when the request reissued after the renewal is answered 401 as well,
\* the session is cleared, no timer is pending, and the call throws
\* "Unauthorized".
C3_SecondUnauthorizedClearsSession ==
  ev.stage = "data2" /\ ev.status = "401" =>
    /\ ev.result = "Unauthorized"
    /\ SessionCleared
    /\ timers = {}

\* C4: at most one renewal timer is pending, in every reachable state.
C4_AtMostOneTimer == Cardinality(timers) <= 1

\* a timer armed while a timer callback is still awaiting its renewal, and
\* armed after an earlier one (the first handle is 1)
C4_Witness ==
  /\ TimerCallCount > 0
  /\ \E x \in timers : x.id = 2 /\ refreshTimeout = 2

\* C5: the session never holds an access token without a refresh token.
C5_AccessImpliesRefresh ==
  AccessTokenView # Null => RefreshTokenView # Null

\* C6: whenever a step replaces the access token, the same step replaces the
\* expiry with the one that came with that token, and that expiry is a
\* timestamp.
C6_ExpiryReplacedWithToken ==
  ev.a # Null =>
    /\ ev.e >= 1
    /\ accessTokenExpiry = ev.e
    /\ sessionStorage.access_token_expiry = ev.e

\* C7: every protected request that carries the bearer token was preceded by
\* ensureValidToken() in the same call.
C7_EnsureBeforeEveryRequest ==
  ev.req # "none" /\ ev.bearer # Null => ev.ensured

\* C8: after a refreshTokens() that failed, for whatever reason and whoever
\* called it, the tokens and the expiry are absent.
C8_EveryFailedRenewalClears ==
  ev.renew \notin {"none", "ok"} => SessionCleared

\* C9: after a renewal fired by the timer failed, ensureValidToken() finds a
\* token missing (and throws "No tokens available" without a request).
C9_TimerFailureLeavesNoSession ==
  ev.caller = "timer" /\ ev.renew \notin {"none", "ok"} =>
    AccessTokenView = Null \/ RefreshTokenView = Null

\* C10: after a refreshTokens() that succeeded, memory and store hold the
\* access token, the refresh token and the expiry of the response, and exactly
\* one timer is pending, due 15 minutes before that expiry (at once when that
\* is past, or when the expiry is no timestamp).
C10_SuccessfulRenewalInstalls ==
  ev.renew = "ok" =>
    /\ accessToken = ev.a
    /\ refreshToken = ev.r
    /\ accessTokenExpiry = (IF ev.e >= 1 THEN ev.e ELSE InvalidDate)
    /\ sessionStorage = [access_token |-> ev.a, refresh_token |-> ev.r,
                         access_token_expiry |-> ev.e]
    /\ refreshTimeout # Null
    /\ timers =
         {[id |-> refreshTimeout,
           fireAt |-> IF ev.e >= 1 /\ ev.e - now > RefreshBeforeExpiry
                      THEN ev.e - RefreshBeforeExpiry
                      ELSE now]}

\* a renewal that replaced pair 1 by pair 2, with the timer due later
C10_Witness ==
  /\ ev.renew = "ok"
  /\ ev.a = 2
  /\ ev.e = now + 16
  /\ \E x \in timers : x.fireAt = now + 1

\* C11: ensureValidToken() with both tokens held and an expiry more than 5
\* minutes ahead returns without calling refreshTokens(); with an expiry 5
\* minutes or less ahead, or with no expiry time known, it calls
\* refreshTokens() exactly once, and returns when that call returns and
\* throws its error when that call throws.
C11_EnsureRenewsOnceWhenStale ==
  /\ gdl.nEnsure <= 1
  /\ (/\ ev.ensure \notin {"none", "No tokens available"}
      /\ ev.caller # "ensure"
      => IF ExpiryView >= 1 /\ ExpiryView - now > BufferTime
         THEN /\ ev.ensure = "returned"
              /\ ev.nEnsure = 0
              /\ ev.renew = "none"
              /\ gdl.pc # "ensure"
         ELSE /\ ev.ensure = "renewing"
              /\ ev.nEnsure = 1
              /\ gdl.pc = "ensure")
  /\ (ev.caller = "ensure" =>
        /\ ev.nEnsure = 1
        /\ gdl.pc # "ensure"
        /\ ev.ensure = IF ev.renew = "ok" THEN "returned" ELSE ev.err)

\* C12: ensureValidToken() called while getAccessToken() or getRefreshToken()
\* returns null (the store consulted) throws "No tokens available", calls
\* refreshTokens() not once and sends no request.
C12_NoTokensNoRenewal ==
  [][(/\ ev'.ensure # "none"
      /\ ev'.caller # "ensure"
      /\ (AccessTokenView = Null \/ RefreshTokenView = Null))
     => /\ ev'.ensure = "No tokens available"
        /\ ev'.nEnsure = 0
        /\ ev'.renew = "none"
        /\ ev'.req = "none"
        /\ gdl'.pc = "idle"]_vars

\* a call that threw at the token check
C12_Witness ==
  /\ ev.ensure = "No tokens available"
  /\ ev.nEnsure = 0
  /\ ev.op = "getDeviceLocations"

\* C13: isTokenExpired() returns true exactly when no expiry time is known or
\* the expiry is 5 minutes or less ahead: true with exactly 5 minutes left,
\* false with any known expiry further ahead.
C13_StaleIffUnknownOrWithinBuffer ==
  ev.op = "isTokenExpired" =>
    ((ev.result = "true") <=>
       (ExpiryView < 1 \/ ExpiryView - now <= BufferTime))

\* C14: for every pair of tokens (a, r), after setTokens(a, r)
\* getAccessToken() returns a and getRefreshToken() returns r, whether they
\* are called next in the same page or after a reload that leaves only
\* sessionStorage.
C14_SetTokensRoundTrip ==
  [][/\ (ev'.op = "setTokens" =>
          AccessTokenView' = ev'.a /\ RefreshTokenView' = ev'.r)
     /\ (ev.op = "setTokens" /\ ev'.op = "getAccessToken" => ev'.ret = ev.a)
     /\ (ev.op = "setTokens" /\ ev'.op = "getRefreshToken" => ev'.ret = ev.r)
     /\ (ev.op = "setTokens" /\ ev'.op = "reload" =>
          /\ accessToken' = Null /\ refreshToken' = Null
          /\ AccessTokenView' = ev.a /\ RefreshTokenView' = ev.r)]_vars

\* setTokens(1, 2) over a session that held other tokens
C14_Witness ==
  /\ ev.op = "setTokens"
  /\ ev.a = 1 /\ ev.r = 2
  /\ accessToken = 1 /\ refreshToken = 2
  /\ sessionStorage.access_token = 1 /\ sessionStorage.refresh_token = 2

\* C15: clearTokens() leaves no timer pending and no handle held, and the
\* access token, the refresh token and the expiry absent in memory and in the
\* store; called a second time in a row it changes nothing.
C15_ClearTokensErasesAll ==
  [][/\ (ev'.op = "clearTokens" =>
          /\ SessionCleared'
          /\ AccessTokenView' = Null
          /\ RefreshTokenView' = Null
          /\ ExpiryView' = Null
          /\ timers' = {}
          /\ refreshTimeout' = Null)
     /\ (ev.op = "clearTokens" /\ ev'.op = "clearTokens" => Cur' = Cur)]_vars

\* clearTokens() called while a timer callback awaits its renewal
C15_Witness ==
  /\ ev.op = "clearTokens"
  /\ SessionCleared
  /\ timers = {}
  /\ TimerCallCount > 0

\* a step in which stopAutoRefresh() ran: called directly, or by clearTokens()
\* on its own or at the end of a refused renewal
Disarmed ==
  \/ ev.op \in {"stopAutoRefresh", "clearTokens"}
  \/ ev.renew \in {"nonok", "malformed"}

\* a step in which a timer callback began to run
TimerCallbackBegan ==
  \/ TimerCallCount' > TimerCallCount
  \/ ev'.caller = "timer" /\ ev'.renew = "norefresh"

\* C16: after stopAutoRefresh(), alone or inside clearTokens(), no timer is
\* pending and no handle is held; a timer callback begins to run only for a
\* timer that is pending and due, and every pending timer is the one
\* refreshTimeout holds, so a timer that was disarmed never runs its
\* callback.  stopAutoRefresh() with no timer pending changes no timer and
\* nothing of the session, and a second call in a row changes nothing.
C16_DisarmedTimerNeverFires ==
  [][/\ (Disarmed' => timers' = {} /\ refreshTimeout' = Null)
     /\ (\A x \in timers' : x.id = refreshTimeout')
     /\ (TimerCallbackBegan =>
          \E tm \in timers :
            /\ now >= tm.fireAt
            /\ ~Disarmed
            /\ timers' = timers \ {tm})
     /\ (ev'.op = "stopAutoRefresh" /\ timers = {} =>
          Cur' = [Cur EXCEPT !.refreshTimeout = Null])
     /\ (ev.op = "stopAutoRefresh" /\ ev'.op = "stopAutoRefresh" =>
          Cur' = Cur)]_vars

\* stopAutoRefresh() on a held session that a timer had been armed for
C16_Witness ==
  /\ ev.op = "stopAutoRefresh"
  /\ timers = {}
  /\ refreshTimeout = Null
  /\ accessToken # Null
  /\ accessTokenExpiry >= 1
  /\ TimerCallCount > 0

\* C17: startAutoRefresh() cancels the timer it holds; then, when an expiry
\* time is known, exactly one timer is pending, held in refreshTimeout and due
\* after max(0, (expiry - now) - 15 minutes), which is 0 exactly when 15
\* minutes or less remain; when no expiry time is known, no timer is pending.
C17_ArmsOneTimerFromExpiry ==
  [][ev'.op = "startAutoRefresh" =>
       IF ExpiryView >= 1
       THEN /\ refreshTimeout' # Null
            /\ timers' =
                 {[id |-> refreshTimeout',
                   fireAt |-> IF ExpiryView - now > RefreshBeforeExpiry
                              THEN ExpiryView - RefreshBeforeExpiry
                              ELSE now]}
       ELSE timers' = {}]_vars

C19_InitRenewsStaleSessionOnce ==
  [][/\ (/\ init.pc = "idle"
         /\ init'.pc = "renew" \/ ev'.op = "initializeAuth"
         /\ AccessTokenView # Null
         /\ RefreshTokenView # Null
         /\ ExpiryView >= 1
         /\ ExpiryView - now <= BufferTime
         => /\ init'.pc = "renew"
            /\ init'.rt = RefreshTokenView
            /\ ev' = NoEv
            /\ screen' = "loading"
            /\ Cur' = GetExpiry(GetRefreshToken(GetAccessToken(Cur))))
     /\ (ev'.caller = "init" =>
          /\ init.pc = "renew"
          /\ init'.pc = "idle"
          /\ ev'.op = "initializeAuth"
          /\ IF ev'.renew = "ok"
             THEN /\ ev'.result = "true"
                  /\ screen' = "map"
                  /\ accessToken' = ev'.a
                  /\ refreshToken' = ev'.r
                  /\ refreshTimeout' # Null
                  /\ \E x \in timers' : timers' = {x} /\ x.id = refreshTimeout'
             ELSE /\ ev'.result = "false"
                  /\ screen' = "login"
                  /\ SessionCleared'
                  /\ timers' = {}
                  /\ refreshTimeout' = Null)]_vars

\* the renewal of a stale session failed on the network at start-up
C19_Witness ==
  /\ ev.caller = "init"
  /\ ev.renew = "neterr"
  /\ ev.op = "initializeAuth"
  /\ ev.result = "false"
  /\ SessionCleared

\* C20: initializeAuth() finding the access token or the refresh token
\* missing (the store consulted) returns false and sends no request; finding
\* both tokens and no expiry it returns false, sends no request, and leaves
\* tokens and expiry absent in memory and store and no timer pending.
C20_InitWithoutSession ==
  [][(init.pc = "idle" /\ (init'.pc = "renew" \/ ev'.op = "initializeAuth"))
     => /\ (AccessTokenView = Null \/ RefreshTokenView = Null =>
             /\ ev'.op = "initializeAuth"
             /\ ev'.result = "false"
             /\ ev'.renew = "none"
             /\ ev'.req = "none"
             /\ init'.pc = "idle"
             /\ screen' = "login")
        /\ (AccessTokenView # Null /\ RefreshTokenView # Null
             /\ ExpiryView = Null =>
             /\ ev'.op = "initializeAuth"
             /\ ev'.result = "false"
             /\ ev'.renew = "none"
             /\ ev'.req = "none"
             /\ init'.pc = "idle"
             /\ screen' = "login"
             /\ SessionCleared'
             /\ timers' = {}
             /\ refreshTimeout' = Null)]_vars

\* initializeAuth() returned false on a store that holds a refresh token and
\* no access token
C20_Witness ==
  /\ ev.op = "initializeAuth"
  /\ ev.result = "false"
  /\ ev.renew = "none"
  /\ sessionStorage.access_token = Null
  /\ sessionStorage.refresh_token # Null

\* C21: initializeAuth() finding both tokens and an expiry more than 5
\* minutes ahead returns true in the same step, without a refreshTokens()
\* call or any request; the tokens and the expiry are the persisted ones, and
\* exactly one timer is pending, due 15 minutes before that expiry (at once
\* when that is past).
C21_InitFreshSessionArmsTimer ==
  [][(/\ init.pc = "idle"
      /\ init'.pc = "renew" \/ ev'.op = "initializeAuth"
      /\ AccessTokenView # Null
      /\ RefreshTokenView # Null
      /\ ExpiryView >= 1
      /\ ExpiryView - now > BufferTime)
     => /\ ev'.op = "initializeAuth"
        /\ ev'.result = "true"
        /\ ev'.renew = "none"
        /\ ev'.req = "none"
        /\ init'.pc = "idle"
        /\ screen' = "map"
        /\ accessToken' = AccessTokenView
        /\ refreshToken' = RefreshTokenView
        /\ accessTokenExpiry' = ExpiryView
        /\ sessionStorage' = sessionStorage
        /\ refreshTimeout' # Null
        /\ timers' =
             {[id |-> refreshTimeout',
               fireAt |-> IF ExpiryView - now > RefreshBeforeExpiry
                          THEN ExpiryView - RefreshBeforeExpiry
                          ELSE now]}]_vars

\* a persisted session with 16 minutes left, restored with the timer due in
\* one minute
C21_Witness ==
  /\ ev.op = "initializeAuth"
  /\ ev.result = "true"
  /\ ev.renew = "none"
  /\ accessTokenExpiry = now + RefreshBeforeExpiry + 1
  /\ timers = {[id |-> refreshTimeout, fireAt |-> now + 1]}

\* C22: refreshTokens() calls are not serialized.  A 401 on the first data
\* request, and an ensureValidToken() that finds the session stale, send
\* their renewal request with the refresh token held whether or not a timer
\* callback is awaiting its own; a due timer's callback sends its request
\* whether or not getDeviceLocations() is awaiting one.  So a state is
\* reached in which a timer callback and getDeviceLocations() both await a
\* renewal sent with the same refresh token.
C22_RenewalNotSerialized ==
  [][/\ (ev'.stage = "data1" /\ ev'.status = "401"
         /\ RefreshTokenView # Null
         => /\ gdl'.pc = "reactive"
            /\ gdl'.rt = RefreshTokenView
            /\ timerCalls' = timerCalls)
     /\ (ev'.ensure = "renewing"
         => /\ gdl'.pc = "ensure"
            /\ gdl'.rt = RefreshTokenView
            /\ timerCalls' = timerCalls)
     /\ (TimerCallCount' > TimerCallCount
         => /\ gdl' = gdl
            /\ RefreshTokenView # Null
            /\ timerCalls' =
                 [timerCalls EXCEPT ![RefreshTokenView] = @ + 1])]_vars

\* a timer callback and the 401 handler both awaiting a renewal sent with
\* refresh token 1
C22_Witness ==
  /\ gdl.pc = "reactive"
  /\ gdl.rt = 1
  /\ timerCalls[1] > 0

\* the same with ensureValidToken() in the place of the 401 handler
C22_WitnessEnsure ==
  /\ gdl.pc = "ensure"
  /\ gdl.rt = 1
  /\ timerCalls[1] > 0

\* a step in which a refreshTokens() call sent its request
RenewalStarted ==
  \/ gdl'.pc \in {"ensure", "reactive"} /\ gdl'.pc # gdl.pc
  \/ init'.pc = "renew" /\ init.pc # "renew"
  \/ TimerCallCount' > TimerCallCount

\* some refreshTokens() call is awaiting its response
RenewalInFlight ==
  \/ gdl.pc \in {"ensure", "reactive"}
  \/ init.pc = "renew"
  \/ TimerCallCount > 0

\* C23: a refreshTokens() call changes nothing of the session from sending
\* its request to the arrival of the response.  The step that sends the
\* request leaves what the three getters return, the store, the handle and
\* the pending timers as they were (the timer whose firing began the step is
\* no longer pending); while calls are awaiting their response the clock can
\* advance and a tile request can read the access token, and that request
\* carries the token that was held and changes nothing either.
C23_RenewalInFlightChangesNothing ==
  [][/\ (RenewalStarted =>
          /\ AccessTokenView' = AccessTokenView
          /\ RefreshTokenView' = RefreshTokenView
          /\ ExpiryView' = ExpiryView
          /\ sessionStorage' = sessionStorage
          /\ refreshTimeout' = refreshTimeout
          /\ timers' \subseteq timers
          /\ (TimerCallCount' = TimerCallCount => timers' = timers))
     /\ (RenewalInFlight /\ ev'.req = "tile" =>
          /\ ev'.bearer = AccessTokenView
          /\ AccessTokenView' = AccessTokenView
          /\ RefreshTokenView' = RefreshTokenView
          /\ ExpiryView' = ExpiryView
          /\ sessionStorage' = sessionStorage
          /\ refreshTimeout' = refreshTimeout
          /\ timers' = timers
          /\ gdl' = gdl /\ init' = init /\ timerCalls' = timerCalls)]_vars

\* a tile request reads the access token while a timer callback awaits its
\* renewal
C23_Witness ==
  /\ TimerCallCount > 0
  /\ ev.req = "tile"
  /\ ev.bearer # Null
  /\ ev.bearer = accessToken

\* C24: once the login screen shows over a cleared session with no timer
\* pending (as after App.handleLogout), tokens and expiry stay absent and no
\* timer is pending until a login succeeds, whatever renewals were in flight
\* when the session was cleared.
C24_LogoutIsFinal ==
  [][(/\ screen = "login"
      /\ SessionCleared
      /\ timers = {}
      /\ ~(ev'.op = "login" /\ ev'.result = "ok"))
     => /\ SessionCleared'
        /\ timers' = {}]_vars

\* the refresh token a refreshTokens() call that failed in this step had sent
FailedRenewalSent ==
  IF ev'.caller = "timer"
  THEN CHOOSE rt \in Tokens : timerCalls'[rt] < timerCalls[rt]
  ELSE gdl.rt

\* C25: a refreshTokens() call that fails after another call, which
\* overlapped it, has succeeded does not erase what that call installed: when
\* the session holds tokens other than the one the failing call sent, the
\* failure leaves tokens and expiry as they are.
C25_FailureKeepsNewerSession ==
  [][(/\ ev'.renew \in {"nonok", "malformed", "neterr", "unparseable"}
      /\ refreshToken # Null
      /\ accessToken # Null
      /\ refreshToken # FailedRenewalSent)
     => /\ accessToken' = accessToken
        /\ refreshToken' = refreshToken
        /\ accessTokenExpiry' = accessTokenExpiry
        /\ sessionStorage' = sessionStorage]_vars

\* C26: whenever the access token, the refresh token and an expiry are held
\* in memory, a renewal timer is pending or a timer callback is awaiting its
\* renewal.
C26_HeldSessionHasRenewalPending ==
  accessToken # Null /\ refreshToken # Null /\ accessTokenExpiry # Null =>
    timers # {} \/ TimerCallCount > 0

\* C27: after a refreshTokens() that succeeded, the timer it armed is due
\* strictly later than now, whatever expiry the response carried.
C27_RearmedDelayPositive ==
  ev.renew = "ok" => \A x \in timers : x.fireAt > now

\* C28: whenever initializeAuth() has returned false, the access token, the
\* refresh token and the expiry are absent in memory and in the store, and
\* getAccessToken() and getRefreshToken() return null.
C28_InitFalseLeavesNothing ==
  ev.op = "initializeAuth" /\ ev.result = "false" =>
    /\ SessionCleared
    /\ AccessTokenView = Null
    /\ RefreshTokenView = Null

\* C29: when ensureValidToken() throws inside getDeviceLocations(), because
\* a token is missing or because its refreshTokens() failed in whatever way,
\* getDeviceLocations() throws "Unauthorized" in the same step without having
\* sent a data request, and tokens and expiry are absent in memory and store
\* with no timer pending.
C29_FailedEnsureEndsUnauthorized ==
  ev.ensure \notin {"none", "renewing", "returned"} =>
    /\ ev.op = "getDeviceLocations"
    /\ ev.result = "Unauthorized"
    /\ ev.req = "none"
    /\ ev.nData = 0
    /\ gdl.pc = "idle"
    /\ SessionCleared
    /\ timers = {}
    /\ refreshTimeout = Null

\* the renewal started by ensureValidToken() failed on the network
C29_Witness ==
  /\ ev.caller = "ensure"
  /\ ev.renew = "neterr"
  /\ ev.ensure = "Failed to fetch"
  /\ ev.result = "Unauthorized"
  /\ SessionCleared

C30_WitnessCleared ==
  /\ ev.op = "clearTokens"
  /\ SessionCleared
====
